---- MODULE Spec2Model ----
(***************************************************************************)
(* Model of src/src/Forecast.js: the Forecast React component.  The state  *)
(* is the component's useState cells plus the pending predictSales runs    *)
(* (each an async invocation suspended at `await model.fit`).  JavaScript  *)
(* strings are sequences of one-character strings, JavaScript numbers are  *)
(* records [kind, v] so that NaN and null are values of their own.         *)
(***************************************************************************)
EXTENDS Integers, Sequences, FiniteSets, TLC

\* ------------------------------------------------------------ bounds
\* Longest parsed file (rows of result.data) an upload delivers.  Two rows
\* give a product two SalesPoints (in either month order) or a file two
\* products.
MaxRows == 2
\* Horizons tried as the component's initial `months`: -MaxHorizon..MaxHorizon.
MaxHorizon == 2
\* Cap on simultaneously pending predictSales invocations (never binding
\* while the button is disabled during a run).
MaxRuns == 2

\* ------------------------------------------------------------ JS values
NaN == [kind |-> "NaN", v |-> 0]
Null == [kind |-> "null", v |-> 0]
Num(n) == [kind |-> "number", v |-> n]

\* a === b on numbers: NaN equals nothing, itself included
StrictEq(a, b) == a.kind = "number" /\ b.kind = "number" /\ a.v = b.v

\* a + i for a number a and an integer i
Plus(a, i) == IF a.kind = "number" THEN Num(a.v + i) ELSE NaN

DigitChars == <<"0", "1", "2", "3", "4", "5", "6", "7", "8", "9">>

IsDigit(c) == \E d \in 1..10 : DigitChars[d] = c

DigitVal(c) == (CHOOSE d \in 1..10 : DigitChars[d] = c) - 1

\* length of the longest prefix of s made of digits
RECURSIVE DigitPrefixLen(_)
DigitPrefixLen(s) ==
  IF s = <<>> \/ ~IsDigit(Head(s)) THEN 0 ELSE 1 + DigitPrefixLen(Tail(s))

\* value of a sequence of digits, base 10
RECURSIVE DigitsValue(_)
DigitsValue(s) ==
  IF s = <<>> THEN 0
  ELSE 10 * DigitsValue(SubSeq(s, 1, Len(s) - 1)) + DigitVal(s[Len(s)])

\* parseInt(s, 10): optional sign, then the longest run of digits; NaN if none
ParseInt(s) ==
  LET neg  == s # <<>> /\ Head(s) = "-"
      sgn  == s # <<>> /\ Head(s) \in {"-", "+"}
      body == IF sgn THEN Tail(s) ELSE s
      n    == DigitPrefixLen(body)
      val  == DigitsValue(SubSeq(body, 1, n))
  IN IF n = 0 THEN NaN ELSE Num(IF neg THEN 0 - val ELSE val)

\* parseFloat(s) on the model's alphabet (digits, sign, letters: no '.', no
\* exponent, no whitespace), where it reads the same prefix as parseInt
ParseFloat(s) == ParseInt(s)

\* Number(s): the whole string must be a numeral; "" is 0
ToNumber(s) ==
  LET sgn  == s # <<>> /\ Head(s) \in {"-", "+"}
      body == IF sgn THEN Tail(s) ELSE s
  IN IF s = <<>> THEN Num(0)
     ELSE IF body # <<>> /\ DigitPrefixLen(body) = Len(body) THEN ParseInt(s)
     ELSE NaN

\* isNaN(s) for a string s
IsNaN(s) == ToNumber(s).kind = "NaN"

\* s.split('-')
RECURSIVE Split(_)
Split(s) ==
  IF \A i \in 1..Len(s) : s[i] # "-" THEN <<s>>
  ELSE LET i == CHOOSE k \in 1..Len(s) :
                  s[k] = "-" /\ \A j \in 1..(k - 1) : s[j] # "-"
       IN <<SubSeq(s, 1, i - 1)>> \o Split(SubSeq(s, i + 1, Len(s)))

\* ------------------------------------------------------------ inputs
Str_23_01 == <<"2", "3", "-", "0", "1">>
Str_23_02 == <<"2", "3", "-", "0", "2">>
Str_23_13 == <<"2", "3", "-", "1", "3">>
Str_23_xx == <<"2", "3", "-", "x", "x">>
Str_2023  == <<"2", "0", "2", "3">>
Widget    == <<"W">>
Gadget    == <<"G">>

Row(c, d, q) == [created |-> c, short_desc |-> d, total_sold |-> q]

\* Rows Papa.parse may deliver (header: true, every value a string; a short
\* line leaves its trailing columns absent).
RawRows ==
  { Row(Str_23_01, Widget, <<"1", "0">>),
    Row(Str_23_02, Widget, <<"1", "5">>),
    Row(Str_23_13, Gadget, <<"-", "5">>),
    Row(Str_23_xx, Widget, <<"x">>),
    Row(Str_2023, Widget, <<"3">>),
    Row(Str_23_01, <<"1", "2">>, <<"3">>),
    Row(<<>>, Widget, <<"3">>),
    [created |-> Str_23_02, short_desc |-> Gadget] }

\* result.data of a parsed file: up to MaxRows rows
RawInputs == UNION { [1..k -> RawRows] : k \in 0..MaxRows }

\* ------------------------------------------------------------ preprocessData
RowLimit == 100

\* row.f is truthy: the column is present and its string is not empty
Truthy(row, f) == f \in DOMAIN row /\ row[f] # <<>>

\* the filter callback of lines 32-34
rowFilter(row) ==
  /\ Truthy(row, "created")
  /\ Truthy(row, "short_desc")
  /\ Truthy(row, "total_sold")
  /\ IsNaN(row.short_desc)

NullEntry == [month |-> Null, product |-> <<>>, quantity |-> Null]

\* the map callback of lines 36-42
rowMap(entry) ==
  IF ~Truthy(entry, "created") \/ ~Truthy(entry, "short_desc")
       \/ ~Truthy(entry, "total_sold")
  THEN NullEntry
  ELSE LET dateParts == Split(entry.created)
       IN IF Len(dateParts) < 2 THEN NullEntry
          ELSE [month    |-> ParseInt(dateParts[2]),
                product  |-> entry.short_desc,
                quantity |-> ParseFloat(entry.total_sold)]

preprocessData(rawData) ==
  LET limitData    == SubSeq(rawData, 1,
                             IF Len(rawData) < RowLimit THEN Len(rawData) ELSE RowLimit)
      filteredData == SelectSeq(limitData, rowFilter)
      mapped       == [i \in 1..Len(filteredData) |-> rowMap(filteredData[i])]
      notNull(e)   == e # NullEntry
  IN SelectSeq(mapped, notNull)

\* const processedData = preprocessData(result.data), over every parsed file
ProcessedInputs == { preprocessData(rawData) : rawData \in RawInputs }

\* ------------------------------------------------------------ state
VARIABLES
  data,             \* useState([]): the Dataset
  months,           \* useState(6): the horizon
  predictions,      \* useState({}): product -> sequence of PredictionPoint
  loading,          \* useState(false)
  selectedProduct,  \* useState('')
  monthsError,      \* useState('')
  runs,             \* predictSales invocations suspended at `await model.fit`
  alerted,          \* products an alert() was shown for
  event             \* the handler or callback that ran last

vars == <<data, months, predictions, loading, selectedProduct, monthsError,
          runs, alerted, event>>

DefaultMonths == 6

EmptyObject == <<>>

MonthsErrorText == "Please enter a positive number for months."

\* what the trained network returns from model.predict(...).dataSync()[0]:
\* some float the model does not compute; two stand for all
FitOutcomes == {0, 1}

\* ------------------------------------------------------------ predictSales
\* data.filter((entry) => entry.product === product)
filterByProduct(d, product) ==
  LET sameProduct(entry) == entry.product = product
  IN SelectSeq(d, sameProduct)

\* [...new Set(data.map((entry) => entry.product))]: first occurrences, in order
RECURSIVE uniqueProducts(_)
uniqueProducts(d) ==
  IF d = <<>> THEN <<>>
  ELSE LET init == uniqueProducts(SubSeq(d, 1, Len(d) - 1))
           p    == d[Len(d)].product
       IN IF \E i \in 1..Len(init) : init[i] = p THEN init ELSE Append(init, p)

ProductSet(d) == { d[i].product : i \in 1..Len(d) }

\* the guard with the boundary off by one: 0 passes
monthsInvalidBelowZero(m) == m < 0

\* the guard of line 85
monthsInvalid(m) == m <= 0

\* a button that stays enabled during a run
buttonNeverDisabled(l) == FALSE

\* <button disabled={loading}>
buttonDisabled(l) == l

\* model.predict(tf.tensor2d([[x1, x2]])).dataSync()[0] of a network whose
\* training ended in outcome w: NaN features give a NaN output
modelPredict(w, x1, x2) == IF x1.kind = "number" THEN Num(w) ELSE NaN

\* lines 71-80 of predictSalesForProduct, run once the fit has resolved
predictSalesForProduct(productData, horizon, w) ==
  LET lastMonth == productData[Len(productData)].month
  IN [i \in 1..horizon |->
        [month     |-> Plus(lastMonth, i),
         predicted |-> modelPredict(w, Plus(lastMonth, i), Len(productData))]]

\* the for loop of lines 97-107 from position i on: the index of the first
\* product whose filtered data is not empty (where the run awaits a fit), or
\* Len(products) + 1 when the loop ends
RECURSIVE nextFit(_, _, _)
nextFit(d, products, i) ==
  IF i > Len(products) THEN i
  ELSE IF Len(filterByProduct(d, products[i])) = 0
       THEN nextFit(d, products, i + 1)
       ELSE i

\* the products the loop skips with an alert between positions i and j
skipped(d, products, i, j) ==
  { products[k] : k \in { n \in i..(j - 1) : Len(filterByProduct(d, products[n])) = 0 } }

\* publishing merged into the previous PredictionSet
setPredictionsMerged(prev, productPredictions) == productPredictions @@ prev

\* setPredictions(productPredictions), line 109
setPredictionsValue(prev, productPredictions) == productPredictions

\* a run that leaves the loading flag set
loadingLeftOn == TRUE

\* setLoading(false), line 110
loadingAfterRun == FALSE

\* an upload appended to the previous Dataset
setDataAppended(prev, processedData) == prev \o processedData

\* setData(processedData), line 22
setDataValue(prev, processedData) == processedData

RemoveAt(s, r) == SubSeq(s, 1, r - 1) \o SubSeq(s, r + 1, Len(s))

Init ==
  /\ data = <<>>
  /\ months = DefaultMonths
  /\ predictions = EmptyObject
  /\ loading = FALSE
  /\ selectedProduct = <<>>
  /\ monthsError = ""
  /\ runs = <<>>
  /\ alerted = {}
  /\ event = "none"

\* The complete callback of Papa.parse (lines 20-23).  handleFileUpload itself
\* changes no state; a parse may complete at any later time with any file.
handleFileUpload ==
  \E processedData \in ProcessedInputs :
    /\ data' = setDataValue(data, processedData)
    /\ event' = "complete"
    /\ UNCHANGED <<months, predictions, loading, selectedProduct, monthsError,
                   runs, alerted>>

\* lines 114-116; the options are '' and the products of the Dataset (149-156)
handleProductChange ==
  \E value \in {<<>>} \cup ProductSet(data) :
    /\ selectedProduct' = value
    /\ event' = "handleProductChange"
    /\ UNCHANGED <<data, months, predictions, loading, monthsError, runs, alerted>>

\* A click on the Predict Sales button: predictSales up to its first await, or
\* to its end when it awaits nothing (lines 84-111).
predictSales ==
  /\ ~buttonDisabled(loading)
  /\ Len(runs) < MaxRuns
  /\ IF monthsInvalid(months)
     THEN /\ monthsError' = MonthsErrorText
          /\ event' = "predictSales"
          /\ UNCHANGED <<data, months, predictions, loading, selectedProduct,
                         runs, alerted>>
     ELSE LET products == uniqueProducts(data)
              j        == nextFit(data, products, 1)
          IN /\ monthsError' = ""
             /\ event' = "predictSales"
             /\ alerted' = alerted \cup skipped(data, products, 1, j)
             /\ IF j > Len(products)
                THEN /\ predictions' = setPredictionsValue(predictions, EmptyObject)
                     /\ loading' = loadingAfterRun
                     /\ runs' = runs
                ELSE /\ loading' = TRUE
                     /\ runs' = Append(runs,
                          [data |-> data, months |-> months, products |-> products,
                           idx |-> j, productPredictions |-> EmptyObject])
                     /\ predictions' = predictions
             /\ UNCHANGED <<data, months, selectedProduct>>

\* The awaited model.fit of run r resolves: the rest of predictSalesForProduct,
\* line 106, and the loop up to the next await or to the end of predictSales.
fitResolved ==
  \E r \in 1..Len(runs), w \in FitOutcomes :
    LET run      == runs[r]
        product  == run.products[run.idx]
        result   == predictSalesForProduct(filterByProduct(run.data, product),
                                           run.months, w)
        pp       == (product :> result) @@ run.productPredictions
        j        == nextFit(run.data, run.products, run.idx + 1)
    IN /\ event' = "fit"
       /\ alerted' = alerted \cup skipped(run.data, run.products, run.idx + 1, j)
       /\ IF j > Len(run.products)
          THEN /\ predictions' = setPredictionsValue(predictions, pp)
               /\ loading' = loadingAfterRun
               /\ runs' = RemoveAt(runs, r)
          ELSE /\ runs' = [runs EXCEPT ![r] = [run EXCEPT !.idx = j,
                                                         !.productPredictions = pp]]
               /\ UNCHANGED <<predictions, loading>>
       /\ UNCHANGED <<data, months, selectedProduct, monthsError>>

Next == handleFileUpload \/ handleProductChange \/ predictSales \/ fitResolved

Spec == Init /\ [][Next]_vars

\* The fit of a pending run completes (model.fit resolves its promise).
FairSpec == Spec /\ WF_vars(fitResolved)

\* The horizon as an input of predictSales: the component constructed with any
\* of the horizons -MaxHorizon..MaxHorizon or the default as its `months`.
HorizonInputs == ((0 - MaxHorizon)..MaxHorizon) \cup {DefaultMonths}

InitHorizon ==
  /\ months \in HorizonInputs
  /\ data = <<>>
  /\ predictions = EmptyObject
  /\ loading = FALSE
  /\ selectedProduct = <<>>
  /\ monthsError = ""
  /\ runs = <<>>
  /\ alerted = {}
  /\ event = "none"

HorizonSpec == InitHorizon /\ [][Next]_vars

\* ------------------------------------------------------------ renderChartData
\* predictions[product]?.find((pred) => pred.month === entry.month)
findPrediction(preds, month) ==
  LET hits == { i \in 1..Len(preds) : StrictEq(preds[i].month, month) }
  IN IF hits = {} THEN Null
     ELSE preds[CHOOSE i \in hits : \A k \in hits : i <= k].predicted

\* a first loop that emits one entry per month, the first SalesPoint's
actualEntriesOncePerMonth(d, preds, product) ==
  LET filteredData == filterByProduct(d, product)
      firstOfMonth(i) == \A k \in 1..(i - 1) :
                           ~StrictEq(filteredData[k].month, filteredData[i].month)
      kept == SelectSeq([i \in 1..Len(filteredData) |-> i], firstOfMonth)
  IN [n \in 1..Len(kept) |->
        [month     |-> filteredData[kept[n]].month,
         actual    |-> filteredData[kept[n]].quantity,
         predicted |-> findPrediction(preds, filteredData[kept[n]].month)]]

\* the first forEach, lines 123-130
actualEntries(d, preds, product) ==
  LET filteredData == filterByProduct(d, product)
  IN [i \in 1..Len(filteredData) |->
        [month     |-> filteredData[i].month,
         actual    |-> filteredData[i].quantity,
         predicted |-> findPrediction(preds, filteredData[i].month)]]

\* the second forEach, lines 132-138
predictedEntries(preds) ==
  [i \in 1..Len(preds) |->
     [month |-> preds[i].month, actual |-> Null, predicted |-> preds[i].predicted]]

renderChartDataOf(d, p, product) ==
  LET preds == IF product \in DOMAIN p THEN p[product] ELSE <<>>
  IN actualEntries(d, preds, product) \o predictedEntries(preds)

renderChartData(product) == renderChartDataOf(data, predictions, product)

\* ------------------------------------------------------------ properties
Less(a, b) == a.kind = "number" /\ b.kind = "number" /\ a.v < b.v

ChartProducts == ProductSet(data) \cup DOMAIN predictions

\* C1: a predictSales call with months <= 0 starts no fit (no run is created),
\* sets a non-empty monthsError, and leaves loading and predictions unchanged.
C1_NonPositiveHorizonRejected ==
  [][(months <= 0 /\ event' = "predictSales")
       => /\ runs' = runs
          /\ runs' = <<>>
          /\ monthsError' # ""
          /\ loading' = loading
          /\ predictions' = predictions]_vars

C1_Witness ==
  /\ months <= 0
  /\ event = "predictSales"
  /\ monthsError = MonthsErrorText
  /\ data # <<>>

\* C2: every result predictSalesForProduct has returned within a run holds
\* exactly H points whose months are lastMonth+1 .. lastMonth+H, strictly
\* increasing and consecutive.
C2_HorizonMonthsConsecutive ==
  \A r \in 1..Len(runs) :
    \A p \in DOMAIN runs[r].productPredictions :
      LET productData == filterByProduct(runs[r].data, p)
          lastMonth   == productData[Len(productData)].month
          preds       == runs[r].productPredictions[p]
      IN /\ Len(preds) = runs[r].months
         /\ \A i \in 1..Len(preds) : StrictEq(preds[i].month, Plus(lastMonth, i))
         /\ \A i \in 1..(Len(preds) - 1) : Less(preds[i].month, preds[i + 1].month)

\* C3: every SalesPoint of the Dataset has a positive quantity and a month
\* in 1..12.
C3_SalesPointsValid ==
  \A i \in 1..Len(data) :
    /\ data[i].quantity.kind = "number"
    /\ data[i].quantity.v > 0
    /\ data[i].month.kind = "number"
    /\ data[i].month.v \in 1..12

\* C4: whenever a run publishes its PredictionSet (at the end of its last fit,
\* or within the click when it has nothing to fit), every key published is a
\* product of the Dataset the run was started on, whatever was uploaded since.
C4_KeysFromRunDataset ==
  [][/\ (Len(runs') < Len(runs))
          => \E r \in 1..Len(runs) :
               /\ runs' = RemoveAt(runs, r)
               /\ DOMAIN predictions' \subseteq ProductSet(runs[r].data)
     /\ (event' = "predictSales" /\ months > 0 /\ runs' = runs)
          => DOMAIN predictions' \subseteq ProductSet(data)]_vars

\* a run has published after the Dataset it started on was replaced
C4_Witness ==
  /\ event = "fit"
  /\ runs = <<>>
  /\ predictions # EmptyObject
  /\ \E p \in DOMAIN predictions : p \notin ProductSet(data)

\* C5 as stated: no two entries of a product's ChartSeries carry the same
\* month with a non-null actual value.
C5_MonthOncePerChart ==
  \A p \in ChartProducts :
    LET c == renderChartData(p)
    IN \A i, j \in 1..Len(c) :
         (i < j /\ c[i].actual # Null /\ c[j].actual # Null)
           => ~StrictEq(c[i].month, c[j].month)

\* C5 amended: the entries of a product's ChartSeries with a non-null actual
\* value are, one for one and in Dataset order, the product's SalesPoints
\* (same month, actual = quantity).
C5_OneActualEntryPerSalesPoint ==
  \A p \in ChartProducts :
    LET c              == renderChartData(p)
        hasActual(e)   == e.actual # Null
        actuals        == SelectSeq(c, hasActual)
        filteredData   == filterByProduct(data, p)
    IN /\ Len(actuals) = Len(filteredData)
       /\ \A i \in 1..Len(actuals) :
            /\ actuals[i].month = filteredData[i].month
            /\ actuals[i].actual = filteredData[i].quantity

\* a predicted product with two SalesPoints of the same month is charted
C5_Witness ==
  \E p \in DOMAIN predictions :
    LET filteredData == filterByProduct(data, p)
    IN /\ Len(filteredData) = 2
       /\ StrictEq(filteredData[1].month, filteredData[2].month)
       /\ Len(renderChartData(p)) > 2

\* C7: in a product's ChartSeries no month is carried both by an entry with an
\* actual value and by an entry with actual = null, and every entry with an
\* actual value precedes every entry with actual = null.
C7_PredictionOnlyMonthsUncovered ==
  \A p \in ChartProducts :
    LET c == renderChartData(p)
    IN \A i, j \in 1..Len(c) :
         (c[i].actual # Null /\ c[j].actual = Null)
           => (i < j /\ ~StrictEq(c[i].month, c[j].month))

\* C8: at most one predictSales run is pending, hence at most one model.fit
\* in flight, and a pending run keeps loading true (the button disabled).
C8_OneFitAtATime ==
  /\ Len(runs) <= 1
  /\ runs # <<>> => loading

\* a run is fitting its second product after an upload came in between
C8_Witness ==
  /\ Len(runs) = 1
  /\ runs[1].idx = 2
  /\ event = "complete"
  /\ data # runs[1].data

\* C9: a Predict click on a loaded Dataset with a valid horizon sets loading;
\* while loading only the completion of a fit changes the run or ends loading;
\* loading ends with the PredictionSet being exactly the run's result (one
\* list of H points per product of the run's Dataset, the earlier fits kept);
\* and, every fit completing, loading always ends.
C9_TrainingReachesPredicted ==
  /\ [][(event' = "predictSales" /\ months > 0 /\ data # <<>> /\ ~loading)
          => loading']_vars
  /\ [][(loading /\ event' # "fit") => (loading' /\ runs' = runs)]_vars
  /\ [][(loading /\ ~loading')
          => /\ Len(runs) = 1
             /\ runs' = <<>>
             /\ DOMAIN predictions' = ProductSet(runs[1].data)
             /\ \A p \in DOMAIN predictions' :
                  Len(predictions'[p]) = runs[1].months
             /\ \A p \in DOMAIN runs[1].productPredictions :
                  predictions'[p] = runs[1].productPredictions[p]]_vars
  /\ loading ~> (~loading /\ runs = <<>> /\ event = "fit")

\* Predicted, over a two-product Dataset
C9_Witness ==
  /\ ~loading
  /\ event = "fit"
  /\ Cardinality(DOMAIN predictions) = 2

\* C10: the completion of an upload sets the Dataset to the preprocessed file
\* and changes none of predictions, selectedProduct, loading, months.
C10_UploadReplacesDatasetOnly ==
  [][(event' = "complete")
       => /\ data' \in ProcessedInputs
          /\ UNCHANGED <<predictions, selectedProduct, loading, months>>]_vars

\* predictions of an earlier Dataset are still in place after a new upload
C10_Witness ==
  /\ event = "complete"
  /\ predictions # EmptyObject
  /\ ProductSet(data) # {}
  /\ \A p \in DOMAIN predictions : p \notin ProductSet(data)

====
